---- MODULE Spec2Model ----
(***************************************************************************)
(* A model of server/src/scripts/tts_bridge.py: the command-line bridge    *)
(* that parses four options, opens an edge_tts streaming session, drains   *)
(* the stream into an audio byte buffer and a list of word boundaries and  *)
(* prints one JSON document.                                               *)
(*                                                                         *)
(* One behaviour of the model is one run of the process.  The command line *)
(* is chosen in Init; the collaborator (edge_tts) is external, so what its *)
(* constructor does and what each pull of its stream returns is a          *)
(* nondeterministic choice: a chunk, the end of the stream, or a fault.    *)
(*                                                                         *)
(* Representation                                                          *)
(*   bytes / bytearray   a sequence of integers 0..255                     *)
(*   str                 a TLA+ string; the base64 text is kept as the     *)
(*                       sequence of its characters so that it can be      *)
(*                       decoded again                                     *)
(*   dict                a record (a function from keys to values)         *)
(*   list                a sequence                                        *)
(*   a line of output    [fmt |-> "json", value |-> v] for the text        *)
(*                       json.dumps(v); [fmt |-> "text", value |-> fs] for *)
(*                       plain text, fs the sequence of the fragments the  *)
(*                       text is made of                                   *)
(***************************************************************************)
EXTENDS Integers, Sequences, FiniteSets, TLC

\* The longest stream (number of chunks) the collaborator yields before it
\* must end or fail.
MaxChunks == 3

VARIABLES
    argv,         \* sys.argv[1:], the command line of the run
    pc,           \* where main() is: "parse", "construct", "drain", "exited"
    args,         \* the argparse namespace (line 15)
    communicate,  \* the edge_tts.Communicate session (line 18)
    audio_data,   \* the bytearray of line 26
    boundaries,   \* the list of line 27
    pulled,       \* the chunks the stream has yielded so far, in arrival order
    stream,       \* the stream: "unopened", "open", "ended", "faulted"
    stdout,       \* the lines written to standard output
    stderr,       \* the lines written to standard error
    exit_code     \* the exit code of the process (-1 while it runs)

vars == <<argv, pc, args, communicate, audio_data, boundaries, pulled, stream,
          stdout, stderr, exit_code>>

\* A local that is not assigned yet.
Unset == [unset |-> TRUE]

----------------------------------------------------------------------------
(* The command line: argparse, lines 9-15.                                 *)
(*                                                                         *)
(* parser.parse_args() is argparse's (CPython 3.11) with the parser of     *)
(* lines 9-13: five optionals and no positional.  argparse looks into the  *)
(* tokens of the command line (a leading '-', an '=', a prefix of an       *)
(* option string), so a token is the sequence of its characters.  The     *)
(* characters of a token are taken to be printable ones, tabs, newlines,   *)
(* carriage returns and form feeds, and its digits to be ASCII.            *)

\* The string of a sequence of characters, and ' '.join / ', '.join.
RECURSIVE ToStr(_)
ToStr(chars) == IF chars = <<>> THEN "" ELSE Head(chars) \o ToStr(Tail(chars))

RECURSIVE Join(_, _)
Join(sep, toks) ==
    IF toks = <<>> THEN ""
    ELSE IF Len(toks) = 1 THEN ToStr(toks[1])
    ELSE ToStr(toks[1]) \o sep \o Join(sep, Tail(toks))

\* The option strings of the parser in the order they are registered: -h and
\* --help by ArgumentParser (line 9), the others by lines 10-13.
OptionStrings ==
    << <<"-", "h">>, <<"-", "-", "h", "e", "l", "p">>,
       <<"-", "-", "t", "e", "x", "t">>,
       <<"-", "-", "v", "o", "i", "c", "e">>,
       <<"-", "-", "r", "a", "t", "e">>,
       <<"-", "-", "p", "i", "t", "c", "h">> >>

\* The action of each option string (its dest), and the name argparse gives
\* the action in an error message.
OptionDest == <<"help", "help", "text", "voice", "rate", "pitch">>

ActionName(dest) ==
    IF dest = "help" THEN "-h/--help" ELSE "--" \o dest

\* The defaults of lines 11-13; --text has none (line 10).
Defaults == [voice |-> "en-US-GuyNeural", rate |-> "+0%", pitch |-> "+0Hz"]

\* What _get_values makes of the one argument '--': the '--' is removed and
\* the value is the empty list.
EmptyList == [list |-> <<>>]

StartsWith(s, prefix) ==
    Len(prefix) <= Len(s) /\ SubSeq(s, 1, Len(prefix)) = prefix

Contains(s, c) == \E i \in 1..Len(s) : s[i] = c

\* s.split(c, 1)
FirstIndex(s, c) ==
    CHOOSE i \in 1..Len(s) : s[i] = c /\ \A j \in 1..(i - 1) : s[j] # c
BeforeFirst(s, c) == SubSeq(s, 1, FirstIndex(s, c) - 1)
AfterFirst(s, c) == SubSeq(s, FirstIndex(s, c) + 1, Len(s))

Digits == {"0", "1", "2", "3", "4", "5", "6", "7", "8", "9"}
AllDigits(s) == \A i \in 1..Len(s) : s[i] \in Digits

\* '^-\d+$|^-\d*\.\d+$' on a token without a newline at its end.
MatchesNegativeNumber(tok) ==
    /\ Len(tok) >= 2
    /\ tok[1] = "-"
    /\ \/ AllDigits(Tail(tok))
       \/ \E k \in 2..(Len(tok) - 1) :
             /\ tok[k] = "."
             /\ AllDigits(SubSeq(tok, 2, k - 1))
             /\ AllDigits(SubSeq(tok, k + 1, Len(tok)))

\* _negative_number_matcher.match: '$' matches at the end of the token and
\* before a newline that ends it.
IsNegativeNumber(tok) ==
    \/ MatchesNegativeNumber(tok)
    \/ /\ tok # <<>>
       /\ tok[Len(tok)] = "\n"
       /\ MatchesNegativeNumber(SubSeq(tok, 1, Len(tok) - 1))

\* repr(s), the %r of an error message: the string between single quotes,
\* or between double quotes when it holds a single quote and no double
\* quote; a backslash, the enclosing quote and the control characters are
\* escaped.
ReprQuote(chars) ==
    IF Contains(chars, "'") /\ ~Contains(chars, "\"") THEN "\"" ELSE "'"

ReprChar(c, quote) ==
    CASE c = "\\" -> "\\\\"
      [] c = "\t" -> "\\t"
      [] c = "\n" -> "\\n"
      [] c = "\r" -> "\\r"
      [] c = "\f" -> "\\x0c"
      [] c = quote -> "\\" \o c
      [] OTHER -> c

RECURSIVE ReprBody(_, _)
ReprBody(chars, quote) ==
    IF chars = <<>> THEN ""
    ELSE ReprChar(Head(chars), quote) \o ReprBody(Tail(chars), quote)

Repr(chars) ==
    ReprQuote(chars) \o ReprBody(chars, ReprQuote(chars)) \o ReprQuote(chars)

\* How a token reads: a positional argument, an option of the parser
\* (opt: its place in OptionStrings; explicit: <<>> or <<the argument
\* written in the token>>), an option the parser does not have, or an
\* ambiguous abbreviation.
Positional == [kind |-> "A"]
Option(i, explicit) == [kind |-> "O", opt |-> i, explicit |-> explicit]
UnknownOption == [kind |-> "O", opt |-> 0, explicit |-> <<>>]

\* _get_option_tuples, for a token of two characters or more that starts
\* with '-': the options the token abbreviates.
OptionTuples(tok) ==
    LET eq == Contains(tok, "=")
        prefix == IF eq THEN BeforeFirst(tok, "=") ELSE tok
        explicit == IF eq THEN <<AfterFirst(tok, "=")>> ELSE <<>>
        Long(i) == StartsWith(OptionStrings[i], prefix)
        Short(i) == OptionStrings[i] = SubSeq(tok, 1, 2)
        ShortPrefix(i) == StartsWith(OptionStrings[i], tok)
        All == [i \in 1..Len(OptionStrings) |-> i]
    IN  IF tok[2] = "-"
        THEN [n \in 1..Len(SelectSeq(All, Long)) |->
                 Option(SelectSeq(All, Long)[n], explicit)]
        ELSE LET Hit(i) == Short(i) \/ ShortPrefix(i)
             IN  [n \in 1..Len(SelectSeq(All, Hit)) |->
                     LET i == SelectSeq(All, Hit)[n]
                     IN  IF Short(i)
                         THEN Option(i, <<SubSeq(tok, 3, Len(tok))>>)
                         ELSE Option(i, <<>>)]

\* The option strings of a sequence of readings, for the message.
RECURSIVE MatchNames(_)
MatchNames(tuples) ==
    IF tuples = <<>> THEN <<>>
    ELSE <<OptionStrings[Head(tuples).opt]>> \o MatchNames(Tail(tuples))

\* _parse_optional.
ParseOptional(tok) ==
    IF tok = <<>> THEN Positional
    ELSE IF tok[1] # "-" THEN Positional
    ELSE IF \E i \in 1..Len(OptionStrings) : OptionStrings[i] = tok
    THEN Option(CHOOSE i \in 1..Len(OptionStrings) : OptionStrings[i] = tok,
                <<>>)
    ELSE IF Len(tok) = 1 THEN Positional
    ELSE IF /\ Contains(tok, "=")
            /\ \E i \in 1..Len(OptionStrings) :
                  OptionStrings[i] = BeforeFirst(tok, "=")
    THEN Option(CHOOSE i \in 1..Len(OptionStrings) :
                    OptionStrings[i] = BeforeFirst(tok, "="),
                <<AfterFirst(tok, "=")>>)
    ELSE IF Len(OptionTuples(tok)) > 1
    THEN [kind |-> "ambiguous",
          message |-> "ambiguous option: " \o ToStr(tok) \o " could match "
                          \o Join(", ", MatchNames(OptionTuples(tok)))]
    ELSE IF Len(OptionTuples(tok)) = 1 THEN OptionTuples(tok)[1]
    ELSE IF IsNegativeNumber(tok) THEN Positional
    ELSE IF Contains(tok, " ") THEN Positional
    ELSE UnknownOption

DashDash == <<"-", "-">>

\* The first loop of _parse_known_args: the reading of every token; the
\* first '--' reads as '-' and every token after it as an argument.
RECURSIVE Classify(_)
Classify(tokens) ==
    IF tokens = <<>> THEN <<>>
    ELSE IF Head(tokens) = DashDash
    THEN <<[kind |-> "-"]>> \o [n \in 1..(Len(tokens) - 1) |-> Positional]
    ELSE <<ParseOptional(Head(tokens))>> \o Classify(Tail(tokens))

\* The explicit argument of -h or --help in consume_optional: -h takes no
\* argument, so what follows a single-dash -h is read as more single-dash
\* options.  TRUE when the help action is reached.
RECURSIVE HelpReached(_, _)
HelpReached(opt, explicit) ==
    IF explicit = <<>> THEN TRUE
    ELSE IF Len(OptionStrings[opt]) = 2 /\ explicit[1] # <<>>
    THEN /\ <<"-", explicit[1][1]>> = OptionStrings[1]
         /\ HelpReached(1, IF Len(explicit[1]) = 1 THEN <<>>
                           ELSE <<Tail(explicit[1])>>)
    ELSE FALSE

\* The explicit argument the error message of consume_optional names.
RECURSIVE IgnoredExplicit(_, _)
IgnoredExplicit(opt, explicit) ==
    IF /\ Len(OptionStrings[opt]) = 2
       /\ explicit[1] # <<>>
       /\ <<"-", explicit[1][1]>> = OptionStrings[1]
       /\ Len(explicit[1]) > 1
    THEN IgnoredExplicit(1, <<Tail(explicit[1])>>)
    ELSE explicit[1]

ArgumentError(dest, msg) ==
    [kind |-> "error", message |-> "argument " \o ActionName(dest) \o ": " \o msg]

\* The second loop of _parse_known_args and the checks after it, from token
\* i on: ns is the namespace so far, seen whether --text was given, extras
\* the tokens nothing consumed.  The result is [kind |-> "ok", ns |-> ns],
\* [kind |-> "help"] or [kind |-> "error", message |-> m].
RECURSIVE ParseFrom(_, _, _, _, _, _)
ParseFrom(tokens, reading, i, ns, seen, extras) ==
    IF i > Len(tokens)
    THEN IF ~seen
         THEN [kind |-> "error",
               message |-> "the following arguments are required: --text"]
         ELSE IF extras # <<>>
         THEN [kind |-> "error",
               message |-> "unrecognized arguments: " \o Join(" ", extras)]
         ELSE [kind |-> "ok", ns |-> ns]
    ELSE IF reading[i].kind # "O" \/ reading[i].opt = 0
    THEN ParseFrom(tokens, reading, i + 1, ns, seen, Append(extras, tokens[i]))
    ELSE LET dest == OptionDest[reading[i].opt]
             explicit == reading[i].explicit
         IN  IF dest = "help"
             THEN IF HelpReached(reading[i].opt, explicit)
                  THEN [kind |-> "help"]
                  ELSE ArgumentError(dest,
                           "ignored explicit argument "
                           \o Repr(IgnoredExplicit(reading[i].opt, explicit)))
             ELSE IF explicit # <<>>
             THEN ParseFrom(tokens, reading, i + 1,
                            (dest :> (IF explicit[1] = DashDash THEN EmptyList
                                      ELSE ToStr(explicit[1]))) @@ ns,
                            seen \/ dest = "text", extras)
             ELSE IF i + 1 <= Len(tokens) /\ reading[i + 1].kind = "A"
             THEN ParseFrom(tokens, reading, i + 2,
                            (dest :> ToStr(tokens[i + 1])) @@ ns,
                            seen \/ dest = "text", extras)
             ELSE ArgumentError(dest, "expected one argument")

\* parser.parse_args(), line 15.  An ambiguous abbreviation is an error of
\* the first loop, before any option acts.
parse_args(tokens) ==
    LET reading == Classify(tokens)
        Ambiguous(r) == r.kind = "ambiguous"
    IN  IF SelectSeq(reading, Ambiguous) # <<>>
        THEN [kind |-> "error",
              message |-> SelectSeq(reading, Ambiguous)[1].message]
        ELSE ParseFrom(tokens, reading, 1, Defaults, FALSE, <<>>)

\* The command lines a run is started with.
CommandLines ==
    {
      \* --text Hi
      <<<<"-", "-", "t", "e", "x", "t">>, <<"H", "i">>>>,
      \* --text ''
      <<<<"-", "-", "t", "e", "x", "t">>, <<>>>>,
      \* --text Hi --voice en-GB-RyanNeural --rate +10% --pitch +5Hz
      <<<<"-", "-", "t", "e", "x", "t">>, <<"H", "i">>, <<"-", "-", "v", "o", "i", "c", "e">>, <<"e", "n", "-", "G", "B", "-", "R", "y", "a", "n", "N", "e", "u", "r", "a", "l">>, <<"-", "-", "r", "a", "t", "e">>, <<"+", "1", "0", "%">>, <<"-", "-", "p", "i", "t", "c", "h">>, <<"+", "5", "H", "z">>>>,
      \* --text Hi --rate fast
      <<<<"-", "-", "t", "e", "x", "t">>, <<"H", "i">>, <<"-", "-", "r", "a", "t", "e">>, <<"f", "a", "s", "t">>>>,
      \* --rate -10 --text 'Hi there'
      <<<<"-", "-", "r", "a", "t", "e">>, <<"-", "1", "0">>, <<"-", "-", "t", "e", "x", "t">>, <<"H", "i", " ", "t", "h", "e", "r", "e">>>>,
      \* --text=Hi
      <<<<"-", "-", "t", "e", "x", "t", "=", "H", "i">>>>,
      \* --te Hi --p=+5Hz
      <<<<"-", "-", "t", "e">>, <<"H", "i">>, <<"-", "-", "p", "=", "+", "5", "H", "z">>>>,
      \* --text=--
      <<<<"-", "-", "t", "e", "x", "t", "=", "-", "-">>>>,
      \* (no argument)
      <<>>,
      \* --voice en-GB-RyanNeural
      <<<<"-", "-", "v", "o", "i", "c", "e">>, <<"e", "n", "-", "G", "B", "-", "R", "y", "a", "n", "N", "e", "u", "r", "a", "l">>>>,
      \* --text
      <<<<"-", "-", "t", "e", "x", "t">>>>,
      \* --text Hi --bogus
      <<<<"-", "-", "t", "e", "x", "t">>, <<"H", "i">>, <<"-", "-", "b", "o", "g", "u", "s">>>>,
      \* --text Hi --rate -10%
      <<<<"-", "-", "t", "e", "x", "t">>, <<"H", "i">>, <<"-", "-", "r", "a", "t", "e">>, <<"-", "1", "0", "%">>>>,
      \* Hi --text Hi -- x
      <<<<"H", "i">>, <<"-", "-", "t", "e", "x", "t">>, <<"H", "i">>, <<"-", "-">>, <<"x">>>>,
      \* --=x -h
      <<<<"-", "-", "=", "x">>, <<"-", "h">>>>,
      \* --text Hi -hx
      <<<<"-", "-", "t", "e", "x", "t">>, <<"H", "i">>, <<"-", "h", "x">>>>,
      \* --help=x
      <<<<"-", "-", "h", "e", "l", "p", "=", "x">>>>,
      \* --help
      <<<<"-", "-", "h", "e", "l", "p">>>>,
      \* --bogus -h
      <<<<"-", "-", "b", "o", "g", "u", "s">>, <<"-", "h">>>>,
      \* --he
      <<<<"-", "-", "h", "e">>>>,
      \* -hh
      <<<<"-", "h", "h">>>> }

----------------------------------------------------------------------------
(* The collaborator: edge_tts.Communicate and its stream.                  *)

\* The chunks a pull of the stream can yield.  A chunk is a dict with a
\* "type" key (read at lines 31 and 33); an audio chunk carries "data", a
\* boundary chunk "offset", "duration" and "text".
AudioChunks ==
    { [type |-> "audio", data |-> <<1, 2>>],
      [type |-> "audio", data |-> <<255>>],
      [type |-> "audio", data |-> <<77, 97, 110>>] }

WordBoundaryChunks ==
    { [type |-> "WordBoundary", offset |-> 0, duration |-> 500000,
       text |-> "Hi"],
      [type |-> "WordBoundary", offset |-> 500000, duration |-> 250000,
       text |-> "there"] }

\* A chunk of a kind the loop has no branch for.
OtherChunks ==
    { [type |-> "SentenceBoundary", offset |-> 0, duration |-> 750000,
       text |-> "Hi there"] }

\* Malformed stream content: an audio chunk without its payload.
MalformedChunks == { [type |-> "audio"] }

Chunks == AudioChunks \cup WordBoundaryChunks \cup OtherChunks
              \cup MalformedChunks

\* The faults (Python exceptions, all subclasses of Exception) the
\* collaborator raises: cls is the exception's class, module the module
\* that defines the class, msg is str(e).
Faults ==
    { [cls |-> "NoAudioReceived", module |-> "edge_tts.exceptions",
       msg |-> "No audio was received."],
      [cls |-> "ValueError", module |-> "builtins",
       msg |-> "Invalid rate 'fast'."],
      [cls |-> "TimeoutError", module |-> "builtins", msg |-> ""] }

\* chunk["data"] on a dict without that key (line 32).
KeyErrorData == [cls |-> "KeyError", module |-> "builtins", msg |-> "'data'"]

\* str(e), line 49.
str(e) == e.msg

----------------------------------------------------------------------------
(* Base64: base64.b64encode(audio_data).decode('utf-8'), line 40.          *)

\* The base64 alphabet: the character of the 6-bit value v is B64Chars[v + 1].
B64Chars ==
    << "A", "B", "C", "D", "E", "F", "G", "H", "I", "J", "K", "L", "M",
       "N", "O", "P", "Q", "R", "S", "T", "U", "V", "W", "X", "Y", "Z",
       "a", "b", "c", "d", "e", "f", "g", "h", "i", "j", "k", "l", "m",
       "n", "o", "p", "q", "r", "s", "t", "u", "v", "w", "x", "y", "z",
       "0", "1", "2", "3", "4", "5", "6", "7", "8", "9", "+", "/" >>

B64Char(v) == B64Chars[v + 1]

\* b64encode followed by decode('utf-8'): every three bytes give four
\* characters; a last group of one or two bytes is padded with '='.
RECURSIVE b64encode(_)
b64encode(bytes) ==
    IF Len(bytes) = 0
    THEN <<>>
    ELSE IF Len(bytes) = 1
    THEN << B64Char(bytes[1] \div 4),
            B64Char((bytes[1] % 4) * 16),
            "=", "=" >>
    ELSE IF Len(bytes) = 2
    THEN << B64Char(bytes[1] \div 4),
            B64Char((bytes[1] % 4) * 16 + bytes[2] \div 16),
            B64Char((bytes[2] % 16) * 4),
            "=" >>
    ELSE << B64Char(bytes[1] \div 4),
            B64Char((bytes[1] % 4) * 16 + bytes[2] \div 16),
            B64Char((bytes[2] % 16) * 4 + bytes[3] \div 64),
            B64Char(bytes[3] % 64) >>
         \o b64encode(SubSeq(bytes, 4, Len(bytes)))

\* The reader's side of the contract: base64 text decoded to bytes.  The
\* 6-bit value of a character is its place in the alphabet.
B64Value(c) == (CHOOSE i \in 1..64 : B64Chars[i] = c) - 1

RECURSIVE b64decode(_)
b64decode(chars) ==
    IF Len(chars) < 4
    THEN <<>>
    ELSE LET v1 == B64Value(chars[1])
             v2 == B64Value(chars[2])
             rest == b64decode(SubSeq(chars, 5, Len(chars)))
         IN  IF chars[3] = "="
             THEN << v1 * 4 + v2 \div 16 >>
             ELSE IF chars[4] = "="
             THEN << v1 * 4 + v2 \div 16,
                     (v2 % 16) * 16 + B64Value(chars[3]) \div 4 >>
             ELSE << v1 * 4 + v2 \div 16,
                     (v2 % 16) * 16 + B64Value(chars[3]) \div 4,
                     (B64Value(chars[3]) % 4) * 64 + B64Value(chars[4]) >>
                  \o rest

----------------------------------------------------------------------------
(* The statements of main().                                               *)

\* print(x) and print(x, file=sys.stderr): one more line on the stream.
print(lines, line) == Append(lines, line)

\* json.dumps(obj), line 45: the JSON text of obj, one line.  A dict becomes
\* a JSON object with the dict's keys, a list an array, a str a string and
\* an int a number, so the text is identified by the value it denotes.
json_dumps(obj) == [fmt |-> "json", value |-> obj]

\* What argparse prints for -h/--help (to stdout) and for a command line it
\* rejects (to stderr).
\* The usage is wrapped as argparse wraps it for the default width of 80
\* columns.
Text(fragments) == [fmt |-> "text", value |-> fragments]

Usage ==
    << Text(<<"usage: tts_bridge.py [-h] --text TEXT [--voice VOICE] [--rate RATE]">>),
       Text(<<"                     [--pitch PITCH]">>) >>

HelpLines ==
    Usage \o
    << Text(<<"">>),
       Text(<<"Edge TTS Bridge">>),
       Text(<<"">>),
       Text(<<"options:">>),
       Text(<<"  -h, --help     show this help message and exit">>),
       Text(<<"  --text TEXT    Text to synthesize">>),
       Text(<<"  --voice VOICE  Voice to use">>),
       Text(<<"  --rate RATE    Rate adjustment">>),
       Text(<<"  --pitch PITCH  Pitch adjustment">>) >>

UsageLines(message) ==
    Usage \o << Text(<<"tts_bridge.py: error: ", message>>) >>

\* edge_tts.Communicate(text=..., voice=..., rate=..., pitch=...,
\* boundary="WordBoundary"), lines 18-24, when it returns.
Communicate(ns) ==
    [text |-> ns.text, voice |-> ns.voice, rate |-> ns.rate,
     pitch |-> ns.pitch, boundary |-> "WordBoundary"]

\* The last line of a traceback (traceback.format_exception_only): the
\* name of the class, qualified by its module unless that is builtins, and
\* str(e) after a colon unless it is empty.
QualifiedName(e) ==
    IF e.module = "builtins" THEN e.cls ELSE e.module \o "." \o e.cls

FormatExceptionOnly(e) ==
    IF str(e) = ""
    THEN Text(<<QualifiedName(e)>>)
    ELSE Text(<<QualifiedName(e), ": ", str(e)>>)

\* The lines of a traceback between its first and its last: the frames of
\* the call stack, from asyncio.run(main()) of line 53 down to the raise
\* inside the collaborator.  How many there are and what they say depends
\* on the interpreter and on the collaborator, so the block is one entry.
StackFrames == [fmt |-> "frames", value |-> <<"  File ...">>]

\* What the interpreter prints for an exception no handler catches.
Traceback(e) ==
    << Text(<<"Traceback (most recent call last):">>),
       StackFrames,
       FormatExceptionOnly(e) >>

\* A faulty extend: the payload is put in front of the buffer.
ExtendAudioPrepend(buf, data) == data \o buf

\* audio_data.extend(chunk["data"]), line 32.
ExtendAudio(buf, data) == buf \o data

\* A faulty append: the chunk is inserted at the head of the list.
AppendBoundaryFront(list, chunk) == <<chunk>> \o list

\* boundaries.append(chunk), line 36: the chunk itself, every key of it.
AppendBoundary(list, chunk) == Append(list, chunk)

\* A faulty loop body: "else" where the code has "elif", so that a chunk of
\* any other kind is appended to the boundaries.
LoopBodyElse(buf, list, chunk) ==
    IF chunk["type"] = "audio"
    THEN [audio_data |-> ExtendAudio(buf, chunk["data"]), boundaries |-> list]
    ELSE [audio_data |-> buf, boundaries |-> AppendBoundary(list, chunk)]

\* The body of the loop, lines 31-36, for a chunk that has the keys its
\* kind reads: the two accumulators after it.
LoopBody(buf, list, chunk) ==
    IF chunk["type"] = "audio"
    THEN [audio_data |-> ExtendAudio(buf, chunk["data"]), boundaries |-> list]
    ELSE IF chunk["type"] = "WordBoundary"
    THEN [audio_data |-> buf, boundaries |-> AppendBoundary(list, chunk)]
    ELSE [audio_data |-> buf, boundaries |-> list]

\* The dict of lines 39-42.
BuildResult(audio, bnds) ==
    [audio |-> b64encode(audio), boundaries |-> bnds]

\* f"Error: {str(e)}", line 49.
ErrorLine(e) == Text(<<"Error: ", str(e)>>)

\* A faulty handler: print without file=sys.stderr.
HandleExceptionOnStdout(e) ==
    [out |-> print(stdout, ErrorLine(e)), err |-> stderr, code |-> 1]

\* A faulty handler: what was accumulated is printed before the error.
HandleExceptionPartial(e) ==
    [out |-> print(stdout, json_dumps(BuildResult(audio_data, boundaries))),
     err |-> print(stderr, ErrorLine(e)), code |-> 1]

\* The handler of lines 47-50 for the exception e: the line it writes, the
\* stream it writes it to and the code it exits with.
HandleException(e) ==
    [out |-> stdout, err |-> print(stderr, ErrorLine(e)), code |-> 1]

\* A faulty end of the stream: a stream without audio is taken for a fault.
EmitResultRequireAudio ==
    IF audio_data = <<>>
    THEN HandleException([cls |-> "ValueError", module |-> "builtins",
                          msg |-> "no audio"])
    ELSE [out |-> print(stdout, json_dumps(BuildResult(audio_data, boundaries))),
          err |-> stderr, code |-> 0]

\* Lines 39-45 and the return of main(): the document is printed and the
\* process exits with 0.
EmitResult ==
    [out |-> print(stdout, json_dumps(BuildResult(audio_data, boundaries))),
     err |-> stderr, code |-> 0]

\* A faulty handler: without sys.exit the loop is entered again.
AfterHandlerResume == "drain"

\* Where main() is after the handler: sys.exit(1), line 50, ends the run.
AfterHandler == "exited"

----------------------------------------------------------------------------
(* The run.                                                                *)

Init ==
    /\ argv \in CommandLines
    /\ pc = "parse"
    /\ args = Unset
    /\ communicate = Unset
    /\ audio_data = <<>>
    /\ boundaries = <<>>
    /\ pulled = <<>>
    /\ stream = "unopened"
    /\ stdout = <<>>
    /\ stderr = <<>>
    /\ exit_code = -1

\* Line 15, the command line is accepted.
ParseArgsOk ==
    /\ pc = "parse"
    /\ parse_args(argv).kind = "ok"
    /\ args' = parse_args(argv).ns
    /\ pc' = "construct"
    /\ UNCHANGED <<argv, communicate, audio_data, boundaries, pulled, stream,
                   stdout, stderr, exit_code>>

\* Line 15, -h or --help: argparse prints the help and exits with 0.
ParseArgsHelp ==
    /\ pc = "parse"
    /\ parse_args(argv).kind = "help"
    /\ stdout' = stdout \o HelpLines
    /\ exit_code' = 0
    /\ pc' = "exited"
    /\ UNCHANGED <<argv, args, communicate, audio_data, boundaries, pulled,
                   stream, stderr>>

\* Line 15, the command line is rejected: argparse prints the usage and the
\* error to stderr and exits with 2.
ParseArgsError ==
    /\ pc = "parse"
    /\ parse_args(argv).kind = "error"
    /\ stderr' = stderr \o UsageLines(parse_args(argv).message)
    /\ exit_code' = 2
    /\ pc' = "exited"
    /\ UNCHANGED <<argv, args, communicate, audio_data, boundaries, pulled,
                   stream, stdout>>

\* Lines 18-27, the constructor returns: the session and the two empty
\* accumulators.
Construct ==
    /\ pc = "construct"
    /\ communicate' = Communicate(args)
    /\ audio_data' = <<>>
    /\ boundaries' = <<>>
    /\ stream' = "open"
    /\ pc' = "drain"
    /\ UNCHANGED <<argv, args, pulled, stdout, stderr, exit_code>>

\* Lines 18-24, the constructor raises: the call is outside the try block of
\* line 29, so the exception leaves main() and asyncio.run(); the
\* interpreter prints the traceback and exits with 1.
ConstructRaises ==
    /\ pc = "construct"
    /\ \E e \in Faults :
          stderr' = stderr \o Traceback(e)
    /\ exit_code' = 1
    /\ pc' = "exited"
    /\ UNCHANGED <<argv, args, communicate, audio_data, boundaries, pulled,
                   stream, stdout>>

\* Lines 30-36, the stream yields a well-formed chunk of any kind.
DrainChunk ==
    /\ pc = "drain"
    /\ Len(pulled) < MaxChunks
    /\ \E chunk \in AudioChunks \cup WordBoundaryChunks \cup OtherChunks :
          /\ pulled' = Append(pulled, chunk)
          /\ audio_data' = LoopBody(audio_data, boundaries, chunk).audio_data
          /\ boundaries' = LoopBody(audio_data, boundaries, chunk).boundaries
    /\ UNCHANGED <<argv, pc, args, communicate, stream, stdout, stderr,
                   exit_code>>

\* Lines 30-32 and 47-50, the stream yields an audio chunk without "data":
\* chunk["data"] raises KeyError inside the try block.
DrainMalformed ==
    /\ pc = "drain"
    /\ Len(pulled) < MaxChunks
    /\ \E chunk \in MalformedChunks :
          pulled' = Append(pulled, chunk)
    /\ stream' = "faulted"
    /\ stdout' = HandleException(KeyErrorData).out
    /\ stderr' = HandleException(KeyErrorData).err
    /\ exit_code' = HandleException(KeyErrorData).code
    /\ pc' = AfterHandler
    /\ UNCHANGED <<argv, args, communicate, audio_data, boundaries>>

\* Lines 30 and 39-45, the stream ends: the document is built from the
\* accumulators and printed, main() returns and the process exits with 0.
StreamEnd ==
    /\ pc = "drain"
    /\ stream' = "ended"
    /\ stdout' = EmitResult.out
    /\ stderr' = EmitResult.err
    /\ exit_code' = EmitResult.code
    /\ pc' = "exited"
    /\ UNCHANGED <<argv, args, communicate, audio_data, boundaries, pulled>>

\* Lines 30 and 47-50, a pull of the stream raises.
StreamFault ==
    /\ pc = "drain"
    /\ \E e \in Faults :
          /\ stdout' = HandleException(e).out
          /\ stderr' = HandleException(e).err
          /\ exit_code' = HandleException(e).code
    /\ stream' = "faulted"
    /\ pc' = AfterHandler
    /\ UNCHANGED <<argv, args, communicate, audio_data, boundaries, pulled>>

Next ==
    \/ ParseArgsOk
    \/ ParseArgsHelp
    \/ ParseArgsError
    \/ Construct
    \/ ConstructRaises
    \/ DrainChunk
    \/ DrainMalformed
    \/ StreamEnd
    \/ StreamFault

Spec == Init /\ [][Next]_vars

----------------------------------------------------------------------------
(* What a run's outcome is measured against.                               *)

\* The command line was accepted: main() got past line 15.
Accepted == args # Unset

\* The two outcomes of the contract.
SuccessOutcome ==
    /\ Len(stdout) = 1
    /\ stdout[1].fmt = "json"
    /\ stderr = <<>>
    /\ exit_code = 0

FailureOutcome ==
    /\ stdout = <<>>
    /\ stderr # <<>>
    /\ exit_code = 1

\* The document a successful run has written.
Emitted == stdout[1].value

\* The payloads of the audio chunks of a stream, concatenated in arrival
\* order.
RECURSIVE AudioPayloads(_)
AudioPayloads(chunks) ==
    IF chunks = <<>>
    THEN <<>>
    ELSE IF Head(chunks).type = "audio"
    THEN Head(chunks).data \o AudioPayloads(Tail(chunks))
    ELSE AudioPayloads(Tail(chunks))

IsWordBoundary(chunk) == chunk.type = "WordBoundary"
IsIgnoredKind(chunk) == chunk.type \notin {"audio", "WordBoundary"}
NotIgnoredKind(chunk) == ~IsIgnoredKind(chunk)

\* The word-boundary chunks of a stream, in arrival order.
WordBoundariesOf(chunks) == SelectSeq(chunks, IsWordBoundary)

\* The document of a stream that ended after the given chunks.
DocumentOf(chunks) ==
    [audio |-> b64encode(AudioPayloads(chunks)),
     boundaries |-> WordBoundariesOf(chunks)]

----------------------------------------------------------------------------
(* The claims.                                                             *)

\* C1 as stated: every terminated run ends either in success (exactly one
\* JSON line on stdout, nothing on stderr, exit code 0) or in failure
\* (nothing on stdout, a message on stderr, exit code 1).  Refuted by the
\* runs argparse ends itself: exit code 2 for a rejected command line, and
\* exit code 0 with the help text on stdout for -h/--help.
C1_EveryRunSuccessOrFailure ==
    pc = "exited" => (SuccessOutcome \/ FailureOutcome)

\* C1 amended: every terminated run whose command line argparse accepted
\* ends in exactly one of the two outcomes, success or failure.
C1_AcceptedRunSuccessOrFailure ==
    (pc = "exited" /\ Accepted) =>
        /\ SuccessOutcome \/ FailureOutcome
        /\ ~(SuccessOutcome /\ FailureOutcome)
        /\ exit_code \in {0, 1}
        /\ exit_code = 0 => stdout # <<>>

\* C1 witness: a run that was accepted and failed before the stream was
\* opened has terminated.
C1_Witness ==
    /\ pc = "exited"
    /\ Accepted
    /\ stream = "unopened"
    /\ FailureOutcome

\* C2: once a pull of the stream has raised, whatever was accumulated
\* before, stdout is empty, stderr is not, the exit code is not 0 and the
\* run is over.
C2_FaultWhileDraining ==
    stream = "faulted" =>
        /\ stdout = <<>>
        /\ stderr # <<>>
        /\ exit_code # 0
        /\ exit_code # -1
        /\ pc = "exited"

\* C2 witness: the stream raised after audio bytes and a boundary had been
\* accumulated.
C2_Witness ==
    /\ stream = "faulted"
    /\ audio_data # <<>>
    /\ boundaries # <<>>

\* C3 as stated: a fault in any step after the command line was accepted,
\* opening the session included, is reported as one line on stderr that
\* starts with "Error: ", with nothing on stdout and exit code 1.  Refuted
\* by a fault of the constructor, which is called outside the try block.
C3_AnyFaultReportedWithPrefix ==
    (pc = "exited" /\ Accepted /\ stream # "ended") =>
        /\ stdout = <<>>
        /\ Len(stderr) = 1
        /\ stderr[1].value[1] = "Error: "
        /\ exit_code = 1

\* C4: when the stream has ended normally, the audio field of the emitted
\* document, base64-decoded, is the concatenation in arrival order of the
\* payloads of all the audio chunks the stream yielded.
C4_AudioIsConcatenation ==
    stream = "ended" =>
        /\ Len(stdout) = 1
        /\ "audio" \in DOMAIN Emitted
        /\ b64decode(Emitted.audio) = AudioPayloads(pulled)

\* C4 witness: the stream ended after two audio chunks with a chunk of
\* another kind between them.
C4_Witness ==
    /\ stream = "ended"
    /\ \E i, j, k \in 1..Len(pulled) :
          /\ i < j /\ j < k
          /\ pulled[i].type = "audio"
          /\ pulled[j].type # "audio"
          /\ pulled[k].type = "audio"
          /\ pulled[i] # pulled[k]

\* C5: when the stream has ended normally, the boundaries field has one
\* entry per word-boundary chunk the stream yielded, in arrival order, each
\* with the chunk's offset, duration and text.
C5_BoundariesInArrivalOrder ==
    stream = "ended" =>
        /\ Len(stdout) = 1
        /\ "boundaries" \in DOMAIN Emitted
        /\ Len(Emitted.boundaries) = Len(WordBoundariesOf(pulled))
        /\ \A i \in 1..Len(Emitted.boundaries) :
              /\ Emitted.boundaries[i].offset = WordBoundariesOf(pulled)[i].offset
              /\ Emitted.boundaries[i].duration = WordBoundariesOf(pulled)[i].duration
              /\ Emitted.boundaries[i].text = WordBoundariesOf(pulled)[i].text

\* C5 witness: the stream ended after two different word-boundary chunks.
C5_Witness ==
    /\ stream = "ended"
    /\ Len(boundaries) >= 2
    /\ boundaries[1] # boundaries[2]

\* C6 as stated: the emitted document has exactly the keys audio and
\* boundaries, and every entry of boundaries has exactly the fields offset,
\* duration and text.  Refuted by any stream with a word-boundary chunk:
\* the entry is the chunk itself, with its "type" key.
C6_ExactKeys ==
    stream = "ended" =>
        /\ DOMAIN Emitted = {"audio", "boundaries"}
        /\ \A i \in 1..Len(Emitted.boundaries) :
              DOMAIN Emitted.boundaries[i] = {"offset", "duration", "text"}

\* C7: a step that pulls a chunk whose kind is neither audio nor
\* WordBoundary changes neither accumulator, writes nothing, raises nothing
\* and leaves the loop running; and the document printed when the stream
\* ends is the document of the stream without such chunks.
C7_OtherKindIgnored ==
    [][ /\ (Len(pulled') = Len(pulled) + 1 /\ IsIgnoredKind(pulled'[Len(pulled')]))
           => /\ audio_data' = audio_data
              /\ boundaries' = boundaries
              /\ stdout' = stdout
              /\ stderr' = stderr
              /\ exit_code' = exit_code
              /\ stream' = "open"
              /\ pc' = "drain"
        /\ stream' = "ended"
           => stdout' = <<json_dumps(DocumentOf(SelectSeq(pulled', NotIgnoredKind)))>>
      ]_vars

\* C7 witness: the stream ended after a chunk of another kind that was
\* followed by an audio or word-boundary chunk.
C7_Witness ==
    /\ stream = "ended"
    /\ \E i, j \in 1..Len(pulled) :
          /\ i < j
          /\ IsIgnoredKind(pulled[i])
          /\ ~IsIgnoredKind(pulled[j])

\* C8: a stream that ended normally is a success; without audio chunks the
\* audio field decodes to no bytes, and without word-boundary chunks the
\* boundaries field is empty.
C8_EmptyStreamsSucceed ==
    stream = "ended" =>
        /\ SuccessOutcome
        /\ {"audio", "boundaries"} \subseteq DOMAIN Emitted
        /\ (\A i \in 1..Len(pulled) : pulled[i].type # "audio")
              => b64decode(Emitted.audio) = <<>>
        /\ (\A i \in 1..Len(pulled) : pulled[i].type # "WordBoundary")
              => Emitted.boundaries = <<>>

\* C8 witness: the stream ended without having yielded a chunk.
C8_Witness ==
    /\ stream = "ended"
    /\ pulled = <<>>
    /\ exit_code = 0

\* C10: stdout stays empty while the stream is drained; a line is written
\* to stdout of an accepted run only in the step in which the stream ends,
\* and only once; after the end of the stream or a fault no chunk is
\* pulled and nothing more is written.
C10_WriteOnceAfterDrain ==
    [][ /\ pc' = "drain" => stdout' = <<>>
        /\ (Accepted /\ stdout' # stdout)
              => /\ stdout = <<>>
                 /\ Len(stdout') = 1
                 /\ stream = "open"
                 /\ stream' = "ended"
        /\ stream \in {"ended", "faulted"}
              => /\ pulled' = pulled
                 /\ stream' = stream
                 /\ stdout' = stdout
      ]_vars

\* C10 witness: the stream raised after a chunk, before the longest stream
\* was reached.
C10_Witness ==
    /\ stream = "faulted"
    /\ Len(pulled) = 1
    /\ Len(pulled) < MaxChunks
    /\ pc = "exited"

====
